---- MODULE Spec2Model ----
(***************************************************************************)
(* Model of src/untitled.py: join_csv_files, hierarchical_chunk_dataframe, *)
(* create_faiss_index and the main script that runs them in sequence.      *)
(*                                                                         *)
(* Text is a sequence of one-character strings.  A cell of a DataFrame is  *)
(* a record tagged with its pandas type: an integer, a string or NaN.      *)
(* A DataFrame is [cols, rows]: the column names in order and the rows,    *)
(* each a sequence of cells aligned with cols.                             *)
(***************************************************************************)
EXTENDS Integers, Sequences, FiniteSets, TLC

VARIABLES pc, files, dfs, merged_df, i, merges, text_columns, chunks,
          records, faiss_index, saved, results, error

vars == <<pc, files, dfs, merged_df, i, merges, text_columns, chunks,
          records, faiss_index, saved, results, error>>

\* ------------------------------------------------------------------ bounds
MaxRows1 == 2
MaxRows2 == 2
MaxRows3 == 2
MaxRowsT == 4

\* ------------------------------------------------------------------ text
\* The characters the model uses, in code-point order (Python compares
\* strings by code point).
CharOrder ==
  << " ", "\"", ",", "0", "1", "2", "3", "4", "5", "6", "7", "8", "9", ":",
     "B", "C", "E", "\\", "_", "a", "b", "c", "d", "e", "g", "h", "i", "k",
     "l", "n", "o", "p", "r", "s", "t", "u", "x", "y", "{", "}" >>

Ord(c) == CHOOSE n \in 1..Len(CharOrder) : CharOrder[n] = c

\* Python's < on str: lexicographic by code point, a proper prefix is smaller.
RECURSIVE StrLess(_, _)
StrLess(a, b) ==
  IF b = <<>> THEN FALSE
  ELSE IF a = <<>> THEN TRUE
  ELSE IF Head(a) = Head(b) THEN StrLess(Tail(a), Tail(b))
  ELSE Ord(Head(a)) < Ord(Head(b))

\* str.join: the parts with sep between consecutive parts.
RECURSIVE StrJoin(_, _)
StrJoin(sep, parts) ==
  IF parts = <<>> THEN <<>>
  ELSE IF Len(parts) = 1 THEN parts[1]
  ELSE parts[1] \o sep \o StrJoin(sep, Tail(parts))

\* str.count of a single character.
StrCount(s, c) == Cardinality({n \in 1..Len(s) : s[n] = c})

\* str(n) for a non-negative int.
RECURSIVE IntStr(_)
IntStr(n) ==
  LET d == CharOrder[4 + (n % 10)]
  IN  IF n < 10 THEN <<d>> ELSE IntStr(n \div 10) \o <<d>>

\* ------------------------------------------------------------------ cells
IntCell(n) == [t |-> "int", n |-> n]
StrCell(s) == [t |-> "str", s |-> s]
NaN == [t |-> "nan"]

\* str(v) as applied to each value of the row dict.
PyStr(v) ==
  CASE v.t = "int" -> IntStr(v.n)
    [] v.t = "str" -> v.s
    [] v.t = "nan" -> <<"n", "a", "n">>

\* ------------------------------------------------------------------ names
join_condition == <<"i", "d">>
category_column == <<"c", "a", "t", "e", "g", "o", "r", "y">>
product == <<"p", "r", "o", "d", "u", "c", "t">>
description == <<"d", "e", "s", "c", "r", "i", "p", "t", "i", "o", "n">>
subcategory == <<"s", "u", "b">> \o category_column
content == <<"c", "o", "n", "t", "e", "n", "t">>
main_text_columns == <<subcategory, product, description, content>>

Electronics == <<"E", "l", "e", "c", "t", "r", "o", "n", "i", "c", "s">>
Books == <<"B", "o", "o", "k", "s">>
Clothing == <<"C", "l", "o", "t", "h", "i", "n", "g">>

EmptyFrame == [cols |-> <<>>, rows |-> <<>>]

\* Positions of the columns named c.
ColIdx(cols, c) == {n \in 1..Len(cols) : cols[n] = c}
HasCol(df, c) == ColIdx(df.cols, c) # {}
Col(df, c) == CHOOSE n \in 1..Len(df.cols) : df.cols[n] = c

\* The elements of s at the positions not in drop, in order.
RECURSIVE DropAt(_, _, _)
DropAt(s, drop, n) ==
  IF n > Len(s) THEN <<>>
  ELSE (IF n \in drop THEN <<>> ELSE <<s[n]>>) \o DropAt(s, drop, n + 1)

RECURSIVE Flatten(_)
Flatten(ss) == IF ss = <<>> THEN <<>> ELSE Head(ss) \o Flatten(Tail(ss))

\* ------------------------------------------------------------------ join
\* The right rows whose key cell equals the key cell k, in right order.
MatchRows(right, on, k) ==
  LET Test(r) == r[Col(right, on)] = k
  IN  SelectSeq(right.rows, Test)

\* The cells of a row of df other than the key cell.
Rest(df, on, r) == DropAt(r, ColIdx(df.cols, on), 1)

\* how='inner' in place of how='left': a left row without a match is lost.
JoinedRowsInner(left, right, on, l) ==
  LET ms == MatchRows(right, on, l[Col(left, on)])
  IN  [m \in 1..Len(ms) |-> l \o Rest(right, on, ms[m])]

\* A lookup in place of a join: only the first matching right row is used.
JoinedRowsFirstMatch(left, right, on, l) ==
  LET ms == MatchRows(right, on, l[Col(left, on)])
      Nans == [n \in 1..(Len(right.cols) - 1) |-> NaN]
  IN  IF ms = <<>> THEN << l \o Nans >> ELSE << l \o Rest(right, on, ms[1]) >>

\* The rows a left join makes of the left row l: one per matching right row,
\* in right order, or one with NaN in the right columns when none matches.
JoinedRows(left, right, on, l) ==
  LET ms == MatchRows(right, on, l[Col(left, on)])
      Nans == [n \in 1..(Len(right.cols) - 1) |-> NaN]
  IN  IF ms = <<>> THEN << l \o Nans >>
      ELSE [m \in 1..Len(ms) |-> l \o Rest(right, on, ms[m])]

\* The columns of the merge: the left columns, then the right columns other
\* than the key.  A non-key column present on both sides gets the suffixes
\* _x (left) and _y (right).
MergedCols(left, right, on) ==
  LET overlap == ({left.cols[n] : n \in 1..Len(left.cols)}
                    \cap {right.cols[n] : n \in 1..Len(right.cols)}) \ {on}
      Suffixed(cols, sfx) ==
        [n \in 1..Len(cols) |->
           IF cols[n] \in overlap THEN cols[n] \o sfx ELSE cols[n]]
  IN  Suffixed(left.cols, <<"_", "x">>)
        \o DropAt(Suffixed(right.cols, <<"_", "y">>), ColIdx(right.cols, on), 1)

\* pd.merge(left, right, on=on, how='left') for frames that both have the
\* column on; the left rows keep their order.
PdMerge(left, right, on) ==
  [cols |-> MergedCols(left, right, on),
   rows |-> Flatten([n \in 1..Len(left.rows) |->
                       JoinedRows(left, right, on, left.rows[n])])]

\* ------------------------------------------------------------------ chunking
\* DataFrame.groupby(c) with its defaults sort=True, dropna=True: the
\* distinct non-null values of column c, in ascending order.
GroupValues(df, c) ==
  {df.rows[n][Col(df, c)].s :
     n \in {m \in 1..Len(df.rows) : df.rows[m][Col(df, c)].t = "str"}}

RECURSIVE SortStrs(_)
SortStrs(S) ==
  IF S = {} THEN <<>>
  ELSE LET least == CHOOSE a \in S : \A b \in S \ {a} : StrLess(a, b)
       IN  <<least>> \o SortStrs(S \ {least})

GroupKeys(df, c) == SortStrs(GroupValues(df, c))

\* The rows of the group of category value cat, in table order.
GroupRows(df, c, cat) ==
  LET Test(r) == r[Col(df, c)] = StrCell(cat)
  IN  SelectSeq(df.rows, Test)

\* json.dumps's string escaping with ensure_ascii=False, for the characters
\* of CharOrder: the quote and the backslash get a backslash in front.
RECURSIVE JsonEscape(_)
JsonEscape(s) ==
  IF s = <<>> THEN <<>>
  ELSE (IF Head(s) \in {"\"", "\\"} THEN <<"\\", Head(s)>> ELSE <<Head(s)>>)
         \o JsonEscape(Tail(s))

JsonQuote(s) == <<"\"">> \o JsonEscape(s) \o <<"\"">>

\* json.dumps of a dict of strings, given as its keys and values in
\* insertion order: {"k": "v", "k2": "v2"}.
JsonDumps(keys, vals) ==
  <<"{">>
    \o StrJoin(<<",", " ">>,
               [n \in 1..Len(keys) |->
                  JsonQuote(keys[n]) \o <<":", " ">> \o JsonQuote(vals[n])])
    \o <<"}">>

\* The row restricted to the columns listed in text_columns.
ItemStrTextColumns(df, c, tc, row) ==
  LET drop == {n \in 1..Len(df.cols) :
                 df.cols[n] = c \/ \A m \in 1..Len(tc) : tc[m] # df.cols[n]}
      keys == DropAt(df.cols, drop, 1)
      cells == DropAt(row, drop, 1)
  IN  JsonDumps(keys, [n \in 1..Len(cells) |-> PyStr(cells[n])])

\* Lines 25-27: the row without the category column, every value through
\* str(), serialized by json.dumps.  tc is the text_columns argument.
ItemStr(df, c, tc, row) ==
  LET drop == ColIdx(df.cols, c)
      keys == DropAt(df.cols, drop, 1)
      cells == DropAt(row, drop, 1)
  IN  JsonDumps(keys, [n \in 1..Len(cells) |-> PyStr(cells[n])])

ContentParts(df, c, tc, cat) ==
  LET rows == GroupRows(df, c, cat)
  IN  [n \in 1..Len(rows) |-> ItemStr(df, c, tc, rows[n])]

Separator == <<" ">>

Document(page_content, metadata) ==
  [page_content |-> page_content, metadata |-> metadata]

\* Lines 18-38, for a frame that has the column c.
hierarchical_chunk_dataframe(df, c, tc) ==
  LET keys == GroupKeys(df, c)
  IN  [n \in 1..Len(keys) |->
         Document(StrJoin(Separator, ContentParts(df, c, tc, keys[n])),
                  [key |-> c, value |-> keys[n]])]

\* ------------------------------------------------------------------ inputs
\* The ids of the files: two distinct values, so that keys can match or not.
Keys == {1, 2}

\* The contents of file1.csv, file2.csv and file3.csv as read_csv parses
\* them: (id, product), (id, category) and (id, description).  A product or
\* a description is distinct on every row; ids and categories are free.
File1Tables ==
  {[cols |-> <<join_condition, product>>,
    rows |-> [n \in 1..len |-> <<IntCell(f[n]), StrCell(<<"p">> \o IntStr(n))>>]] :
     len \in 0..MaxRows1, f \in [1..MaxRows1 -> Keys]}

File2Tables ==
  {[cols |-> <<join_condition, category_column>>,
    rows |-> [n \in 1..len |-> <<IntCell(f[n][1]), StrCell(f[n][2])>>]] :
     len \in 0..MaxRows2, f \in [1..MaxRows2 -> Keys \X {Electronics, Books}]}

File3Tables ==
  {[cols |-> <<join_condition, description>>,
    rows |-> [n \in 1..len |-> <<IntCell(f[n]), StrCell(<<"d">> \o IntStr(n))>>]] :
     len \in 0..MaxRows3, f \in [1..MaxRows3 -> Keys]}

\* The same file without its id column.
WithoutKey(df) ==
  [cols |-> DropAt(df.cols, ColIdx(df.cols, join_condition), 1),
   rows |-> [n \in 1..Len(df.rows) |->
               DropAt(df.rows[n], ColIdx(df.cols, join_condition), 1)]]

FileSets ==
  {[n \in 1..3 |-> IF n = missing THEN WithoutKey(<<a, b, c>>[n]) ELSE <<a, b, c>>[n]] :
     a \in File1Tables, b \in File2Tables, c \in File3Tables, missing \in 0..3}

\* Frames handed to hierarchical_chunk_dataframe directly: (id, category,
\* product) with a category that may be NaN and products that contain the
\* characters json.dumps and the main script treat specially.
ChunkValues == {<<"a">>, <<"{", "\"">>}
ChunkCategories == {StrCell(Electronics), StrCell(Books), StrCell(Clothing), NaN}

ChunkFrames ==
  {[cols |-> <<join_condition, category_column, product>>,
    rows |-> [n \in 1..len |-> <<IntCell(n), f[n][1], StrCell(f[n][2])>>]] :
     len \in 0..MaxRowsT, f \in [1..MaxRowsT -> ChunkCategories \X ChunkValues]}

TextColumnChoices == {<<>>, <<product>>, main_text_columns}

None == <<>>
Some(x) == <<x>>

\* ------------------------------------------------------------------ main script
Init ==
  /\ pc = "start"
  /\ files \in FileSets
  /\ dfs = <<>>
  /\ merged_df = EmptyFrame
  /\ i = 0
  /\ merges = 0
  /\ text_columns = main_text_columns
  /\ chunks = <<>>
  /\ records = <<>>
  /\ faiss_index = None
  /\ saved = None
  /\ results = <<>>
  /\ error = "none"

\* Lines 12-13: read every file, start the fold from the first frame.
\* read_csv raises when a file cannot be read.
ReadCsv ==
  /\ pc = "start" /\ error = "none"
  /\ \/ /\ dfs' = files
        /\ merged_df' = files[1]
        /\ i' = 2
        /\ pc' = IF Len(files) < 2 THEN "joined" ELSE "join"
        /\ UNCHANGED error
     \/ /\ error' = "FileNotFoundError"
        /\ UNCHANGED <<dfs, merged_df, i, pc>>
  /\ UNCHANGED <<files, merges, text_columns, chunks, records, faiss_index,
                 saved, results>>

\* Lines 14-16: one iteration of the fold; the last one returns merged_df.
\* pd.merge raises KeyError when either frame lacks the column.
MergeStep ==
  /\ pc = "join" /\ error = "none"
  /\ IF HasCol(merged_df, join_condition) /\ HasCol(dfs[i], join_condition)
     THEN /\ merged_df' = PdMerge(merged_df, dfs[i], join_condition)
          /\ merges' = merges + 1
          /\ i' = i + 1
          /\ pc' = IF i = Len(dfs) THEN "joined" ELSE "join"
          /\ UNCHANGED error
     ELSE /\ error' = "KeyError"
          /\ UNCHANGED <<merged_df, merges, i, pc>>
  /\ UNCHANGED <<files, dfs, text_columns, chunks, records, faiss_index,
                 saved, results>>

\* Line 65: groupby raises KeyError when the frame lacks the category column.
Chunk ==
  /\ pc = "joined" /\ error = "none"
  /\ IF HasCol(merged_df, category_column)
     THEN /\ chunks' = hierarchical_chunk_dataframe(merged_df, category_column,
                                                    text_columns)
          /\ pc' = "chunked"
          /\ UNCHANGED error
     ELSE /\ error' = "KeyError"
          /\ UNCHANGED <<chunks, pc>>
  /\ UNCHANGED <<files, dfs, merged_df, i, merges, text_columns, records,
                 faiss_index, saved, results>>

\* Lines 67-74: the "Number of records" printed for every chunk.
PrintChunks ==
  /\ pc = "chunked" /\ error = "none"
  /\ records' = [n \in 1..Len(chunks) |-> StrCount(chunks[n].page_content, "{")]
  /\ pc' = "printed"
  /\ UNCHANGED <<files, dfs, merged_df, i, merges, text_columns, chunks,
                 faiss_index, saved, results, error>>

\* The embedding failure swallowed: the chunks embedded so far become the
\* index and the script goes on.
create_faiss_index_partial ==
  /\ pc = "printed" /\ error = "none"
  /\ \/ /\ faiss_index' = Some(chunks)
        /\ pc' = "indexed"
        /\ UNCHANGED error
     \/ /\ \E k \in 0..(Len(chunks) - 1) : faiss_index' = Some(SubSeq(chunks, 1, k))
        /\ pc' = "indexed"
        /\ UNCHANGED error
  /\ UNCHANGED <<files, dfs, merged_df, i, merges, text_columns, chunks,
                 records, saved, results>>

\* Lines 40-49 and 77: FAISS.from_documents embeds every chunk and returns
\* the index, or an embedding call raises and nothing is returned.
create_faiss_index ==
  /\ pc = "printed" /\ error = "none"
  /\ \/ /\ faiss_index' = Some(chunks)
        /\ pc' = "indexed"
        /\ UNCHANGED error
     \/ /\ error' = "EmbeddingProviderError"
        /\ UNCHANGED <<faiss_index, pc>>
  /\ UNCHANGED <<files, dfs, merged_df, i, merges, text_columns, chunks,
                 records, saved, results>>

\* Line 78: faiss_index.save_local.
SaveLocal ==
  /\ pc = "indexed" /\ error = "none"
  /\ \/ /\ saved' = faiss_index
        /\ pc' = "saved"
        /\ UNCHANGED error
     \/ /\ error' = "PersistenceError"
        /\ UNCHANGED <<saved, pc>>
  /\ UNCHANGED <<files, dfs, merged_df, i, merges, text_columns, chunks,
                 records, faiss_index, results>>

\* Lines 82-87: similarity_search(query, k=1) returns the nearest document
\* of the index; which one is the embedding's choice.
SimilaritySearch ==
  /\ pc = "saved" /\ error = "none"
  /\ \/ /\ \/ \E n \in 1..Len(faiss_index[1]) : results' = <<faiss_index[1][n]>>
           \/ faiss_index[1] = <<>> /\ results' = <<>>
        /\ pc' = "done"
        /\ UNCHANGED error
     \/ /\ error' = "EmbeddingProviderError"
        /\ UNCHANGED <<results, pc>>
  /\ UNCHANGED <<files, dfs, merged_df, i, merges, text_columns, chunks,
                 records, faiss_index, saved>>

Next ==
  \/ ReadCsv
  \/ MergeStep
  \/ Chunk
  \/ PrintChunks
  \/ create_faiss_index
  \/ SaveLocal
  \/ SimilaritySearch

Spec == Init /\ [][Next]_vars

\* hierarchical_chunk_dataframe and the record count on frames of its own.
InitChunk ==
  /\ pc = "joined"
  /\ files = <<>>
  /\ dfs = <<>>
  /\ merged_df \in ChunkFrames
  /\ i = 0
  /\ merges = 0
  /\ text_columns \in TextColumnChoices
  /\ chunks = <<>>
  /\ records = <<>>
  /\ faiss_index = None
  /\ saved = None
  /\ results = <<>>
  /\ error = "none"

NextChunk == Chunk \/ PrintChunks

SpecChunk == InitChunk /\ [][NextChunk]_vars

\* ------------------------------------------------------------------ measures
RECURSIVE SeqSum(_)
SeqSum(ns) == IF ns = <<>> THEN 0 ELSE Head(ns) + SeqSum(Tail(ns))

\* The positions of s that hold a quote not escaped by a backslash.
BareQuotes(s) ==
  {n \in 1..Len(s) :
     /\ s[n] = "\""
     /\ LET run == CHOOSE k \in 0..(n - 1) :
                     /\ \A j \in 1..k : s[n - j] = "\\"
                     /\ (k = n - 1 \/ s[n - k - 1] # "\\")
        IN  run % 2 = 0}

\* The number of JSON objects in s: the braces that open outside any string.
CountObjects(s) ==
  LET quotes == BareQuotes(s)
  IN  Cardinality({n \in 1..Len(s) :
                     /\ s[n] = "{"
                     /\ Cardinality({m \in quotes : m < n}) % 2 = 0})

\* The number of places where pat occurs in s.
CountSub(s, pat) ==
  Cardinality({n \in 1..(Len(s) - Len(pat) + 1) :
                 SubSeq(s, n, n + Len(pat) - 1) = pat})

\* The number of records of s that have a field named name.
CountField(s, name) == CountSub(s, JsonQuote(name) \o <<":", " ">>)

\* str.split(sep) for a one-character sep.
StrSplit(s, sep) ==
  LET at == {n \in 1..Len(s) : s[n] = sep}
      Cut(j) == IF j = 0 THEN 0
                ELSE IF j = Cardinality(at) + 1 THEN Len(s) + 1
                ELSE CHOOSE n \in at : Cardinality({m \in at : m < n}) = j - 1
  IN  [j \in 1..(Cardinality(at) + 1) |-> SubSeq(s, Cut(j - 1) + 1, Cut(j) - 1)]

\* The cells of column c, top to bottom.
Column(df, c) == [n \in 1..Len(df.rows) |-> df.rows[n][Col(df, c)]]

\* The first row whose cell in column c is v.
FirstRow(df, c, v) ==
  CHOOSE n \in 1..Len(df.rows) :
    /\ df.rows[n][Col(df, c)] = v
    /\ \A m \in 1..(n - 1) : df.rows[m][Col(df, c)] # v

Joined == pc \notin {"start", "join"}
Chunked == pc \notin {"start", "join", "joined"}
Printed == pc \notin {"start", "join", "joined", "chunked"}

\* ------------------------------------------------------------------ claims

\* C1: the documents together hold exactly one row-blob per row of the
\* table: the numbers of row-blobs of the documents add up to the number of
\* rows, also when some rows have a null category.
C1_GroupingCompleteness ==
  Chunked =>
    SeqSum([n \in 1..Len(chunks) |-> CountObjects(chunks[n].page_content)])
      = Len(merged_df.rows)

\* C2: the documents come in the order in which their category values are
\* first met scanning the table top to bottom.
C2_FirstSeenOrder ==
  Chunked =>
    \A n, m \in 1..Len(chunks) :
      n < m =>
        FirstRow(merged_df, category_column, StrCell(chunks[n].metadata.value))
          < FirstRow(merged_df, category_column, StrCell(chunks[m].metadata.value))

\* C3: a join key absent from any input table makes join_csv_files fail, and
\* at the moment it fails no pairwise left join has been computed.
C3_SchemaErrorBeforeAnyJoin ==
  /\ Joined => \A n \in 1..Len(dfs) : HasCol(dfs[n], join_condition)
  /\ (pc = "join" /\ error = "KeyError") => merges = 0

\* C4: the separator between row-blobs never occurs inside a row-blob, so
\* splitting a document's content on it yields exactly its row-blobs.
C4_UnambiguousSeparator ==
  Chunked =>
    \A n \in 1..Len(chunks) :
      StrSplit(chunks[n].page_content, Separator[1])
        = ContentParts(merged_df, category_column, text_columns,
                       chunks[n].metadata.value)

\* C5: the number of records the main script prints for a document, the
\* number of "{" in its content, is the number of rows of its category.
C5_RecordCountRoundTrip ==
  Printed =>
    \A n \in 1..Len(chunks) :
      records[n] = Len(GroupRows(merged_df, category_column,
                                 chunks[n].metadata.value))

\* C6: there is exactly one document per distinct value of the category
\* column, its metadata is the one entry {category column: value}, and no
\* row-blob has a field named after the category column.
C6_OneDocumentPerCategory ==
  Chunked =>
    LET values == {Column(merged_df, category_column)[n] :
                     n \in 1..Len(merged_df.rows)}
    IN  /\ Len(chunks) = Cardinality(values)
        /\ \A v \in values :
             Cardinality({n \in 1..Len(chunks) :
                            StrCell(chunks[n].metadata.value) = v}) = 1
        /\ \A n \in 1..Len(chunks) :
             /\ chunks[n].metadata.key = category_column
             /\ CountField(chunks[n].page_content, category_column) = 0

NoDupKeys(df) ==
  \A a, b \in 1..Len(df.rows) :
    a < b => df.rows[a][Col(df, join_condition)] # df.rows[b][Col(df, join_condition)]

\* What the table t contributes to the result row of a first-table row with
\* key k when t has at most one row with that key.
Contribution(t, k) ==
  LET ms == MatchRows(dfs[t], join_condition, k)
  IN  IF ms = <<>> THEN [n \in 1..(Len(dfs[t].cols) - 1) |-> NaN]
      ELSE Rest(dfs[t], join_condition, ms[1])

\* The number of rows of df that start with the cells of a.
RowsFor(df, a) ==
  Cardinality({n \in 1..Len(df.rows) : SubSeq(df.rows[n], 1, Len(a)) = a})

HasRow(df, r) == \E n \in 1..Len(df.rows) : df.rows[n] = r

C7_Result ==
  (Joined /\ \A t \in 2..Len(dfs) : NoDupKeys(dfs[t])) =>
    /\ Len(merged_df.rows) = Len(dfs[1].rows)
    /\ \A j \in 1..Len(dfs[1].rows) :
         merged_df.rows[j] =
           dfs[1].rows[j]
             \o Flatten([u \in 1..(Len(dfs) - 1) |->
                           Contribution(u + 1,
                                        dfs[1].rows[j][Col(dfs[1], join_condition)])])

C7_Step == Len(merged_df'.rows) >= Len(merged_df.rows)

\* C7: when no later table has two rows with the same key, the result has
\* the rows of the first table, each once, with the matching row's columns
\* or nulls; and no fold step makes the accumulator shorter.
C7_JoinCardinality == []C7_Result /\ [][C7_Step]_vars

C7_Witness ==
  /\ pc = "joined"
  /\ \A t \in 2..Len(dfs) : NoDupKeys(dfs[t])
  /\ Len(dfs[2].rows) = 1
  /\ Len(merged_df.rows) = 2
  /\ \E j \in 1..2 : merged_df.rows[j][3] = NaN
  /\ \E j \in 1..2 : merged_df.rows[j][3] # NaN

C8_Result ==
  (Joined /\ Len(dfs) = 3) =>
    \A j \in 1..Len(dfs[1].rows) :
      LET a == dfs[1].rows[j]
          k == a[Col(dfs[1], join_condition)]
          bs == MatchRows(dfs[2], join_condition, k)
          cs == MatchRows(dfs[3], join_condition, k)
      IN  (bs # <<>> /\ cs # <<>>) =>
            /\ RowsFor(merged_df, a) = RowsFor(dfs[1], a) * Len(bs) * Len(cs)
            /\ \A b \in 1..Len(bs), c \in 1..Len(cs) :
                 HasRow(merged_df, a \o Rest(dfs[2], join_condition, bs[b])
                                     \o Rest(dfs[3], join_condition, cs[c]))

C8_Step ==
  (pc = "join" /\ merges' = merges + 1) =>
    \A j \in 1..Len(merged_df.rows) :
      LET a == merged_df.rows[j]
          bs == MatchRows(dfs[i], join_condition, a[Col(merged_df, join_condition)])
      IN  Len(bs) = 2 =>
            /\ RowsFor(merged_df', a) = 2 * RowsFor(merged_df, a)
            /\ HasRow(merged_df', a \o Rest(dfs[i], join_condition, bs[1]))
            /\ HasRow(merged_df', a \o Rest(dfs[i], join_condition, bs[2]))

\* C8: an accumulator row whose key two rows of the joined table have gets
\* exactly two result rows, one with each of them; over the chain a row that
\* matches p rows of the second table and q of the third gets p*q rows.
C8_JoinFanOut == []C8_Result /\ [][C8_Step]_vars

C8_Witness ==
  /\ pc = "joined"
  /\ Len(dfs[1].rows) = 1
  /\ Len(MatchRows(dfs[2], join_condition, dfs[1].rows[1][1])) = 2
  /\ Len(MatchRows(dfs[3], join_condition, dfs[1].rows[1][1])) = 2
  /\ dfs[2].rows[1] # dfs[2].rows[2]
  /\ Len(merged_df.rows) = 4

StageNo(p) ==
  CASE p = "start" -> 0
    [] p = "join" -> 1
    [] p = "joined" -> 2
    [] p = "chunked" -> 3
    [] p = "printed" -> 4
    [] p = "indexed" -> 5
    [] p = "saved" -> 6
    [] p = "done" -> 7

C9_Step ==
  /\ error = "none"
  /\ \/ error' # "none" /\ pc' = pc /\ <<faiss_index, saved, results>>' = <<faiss_index, saved, results>>
     \/ error' = "none" /\ StageNo(pc') = StageNo(pc) + 1
     \/ error' = "none" /\ pc = "join" /\ pc' = "join" /\ i' = i + 1
  /\ saved' # None => (pc' \in {"saved", "done"} /\ saved' = Some(chunks') /\ faiss_index' = saved')
  /\ results' # <<>> => (pc' = "done" /\ saved' # None)

C9_NoPartialIndex ==
  (pc = "printed" /\ error # "none") =>
    (faiss_index = None /\ saved = None /\ results = <<>>)

\* C9: the stages run in the fixed order, each at most once; after a failed
\* stage nothing runs; an index is persisted or searched only when every
\* chunk was embedded.
C9_AllOrNothing == []C9_NoPartialIndex /\ [][C9_Step]_vars

C9_Witness ==
  /\ pc = "printed"
  /\ error = "EmbeddingProviderError"
  /\ Len(chunks) = 2
  /\ saved = None

\* C10: text_columns does not change the result, and every column but the
\* category column is a field of every row-blob, listed or not.
C10_TextColumnsIgnored ==
  Chunked =>
    /\ \A tc \in TextColumnChoices :
         hierarchical_chunk_dataframe(merged_df, category_column, tc) = chunks
    /\ \A n \in 1..Len(chunks), m \in 1..Len(merged_df.cols) :
         merged_df.cols[m] # category_column =>
           CountField(chunks[n].page_content, merged_df.cols[m])
             = Len(GroupRows(merged_df, category_column, chunks[n].metadata.value))

C10_Witness ==
  /\ pc = "chunked"
  /\ text_columns = <<>>
  /\ Len(chunks) = 2
  /\ CountField(chunks[1].page_content, join_condition) = 2
  /\ CountField(chunks[1].page_content, product) = 2

====
